---- MODULE Spec2Model ----
(***************************************************************************)
(* AI request orchestration layer of the job-alert bot                     *)
(* (src/utils/ai_helper.py): the sliding-window rate limiter, the response *)
(* cache, the model cascade, the usage counters and ask_deepseek, called   *)
(* by concurrently running message handlers (src/bot.py).                  *)
(*                                                                         *)
(* Time is counted in ticks of the wall clock.  A block the code runs     *)
(* under one of its locks is one atomic step.  SpecRL and SpecCascade take *)
(* wait_for_rate_limit and the model loop of make_ai_request_with_retry    *)
(* apart: a read of the clock made before the lock is taken is a step of   *)
(* its own, as is every provider call and every sleep.  Spec, which is     *)
(* about ask_deepseek and its callers, takes each of the two as one step.  *)
(***************************************************************************)
EXTENDS Integers, Sequences, FiniteSets, TLC

(***************************************************************************)
(* Bounds.  The durations and capacities are the program's, scaled down to *)
(* a few ticks / entries (the source values are given on each line).       *)
(***************************************************************************)
\* ai_helper.py:30  MAX_REQUESTS_PER_MINUTE = 20
MAX_REQUESTS_PER_MINUTE == 2
\* ai_helper.py:29  MIN_REQUEST_INTERVAL = 2.0 (seconds)
MIN_REQUEST_INTERVAL == 1
\* ai_helper.py:146 the 60 second window of can_make_request
WINDOW == 4
\* ai_helper.py:164 time.sleep(0.5) of the poll loop
POLL_SLEEP == 1
\* number of ticks the clock advances past its start in SpecRL
Horizon == 5
\* ai_helper.py:234 time.sleep(0.5) between two attempts on one model
BACKOFF_SLEEP == 1
\* number of ticks the clock advances past its start in Spec
AskHorizon == 2
\* number of ticks the clock advances past its start in SpecCascade
CascadeHorizon == 2
\* number of ticks the clock advances past its start in SpecCache
CacheHorizon == 4
\* number of cache calls made in SpecCache
MaxCacheCalls == 5
\* number of ticks the clock advances past its start in SpecFault
FaultHorizon == 1
\* number of make_ai_request_with_retry calls made in SpecCascade
MaxCascadeCalls == 2
\* largest max_retries passed in SpecCascade
MaxRetries == 2
\* number of wait_for_rate_limit calls made in SpecRL
MaxWaitCalls == 4

\* ai_helper.py:36  CACHE_EXPIRY_MINUTES * 60 seconds
CACHE_TTL == 2
\* ai_helper.py:268 the cache keeps at most 100 entries
CACHE_CAPACITY == 2
\* number of top-level calls made in Spec
MaxCalls == 2
\* number of midnights that pass
MaxMidnights == 1

Handlers == {"h1", "h2"}

\* ai_helper.py:40-69: the models in list order, each with its priority
FALLBACK_MODELS ==
    << [name |-> "deepseek-r1", priority |-> 1],
       [name |-> "llama-4-scout", priority |-> 2],
       [name |-> "gemma-2-9b-it", priority |-> 3],
       [name |-> "cypher-alpha", priority |-> 4] >>
NumModels == Len(FALLBACK_MODELS)
\* make_ai_request_with_retry(messages, max_retries=1)
DefaultMaxRetries == 1

\* What a provider call can give: a response, whose content is a text, the
\* empty text or None, or an exception that is rate-limit-class ("429") or not.
\* The content of a response is drawn where the caller first reads it.
Answers == {"a1", "a2"}
EmptyContent == ""
NoneContent == "<None>"
NoResponse == "<no response>"
Response == "<response>"
Contents == Answers \cup {EmptyContent, NoneContent}
Errors == {"429", "other"}

\* The static messages of ask_deepseek
UnavailableMsg == "AI assistant is currently unavailable"
BusyMsg == "All our AI advisors are busy now"
LimitMsg == "daily AI limit"
ConnectMsg == "trouble connecting"
Placeholder == "couldn't generate a response"

\* Prompts and contexts as token sequences; "j" stands for the JSON text of
\* the (non-empty) context dict, which a prompt may also end with.
Prompts == {<<"q">>, <<"q", "j">>}
NoContext == "none"
Contexts == {NoContext, "ctx"}
\* the inputs of get_cache_key called on its own: one more prompt, and a
\* second context dict, whose JSON text is "j2"
KeyPrompts == Prompts \cup {<<"p">>}
KeyContexts == Contexts \cup {"ctx2"}

\* The clock starts late enough for LAST_REQUEST_TIME = 0 to be long ago
\* (time.time() is seconds since 1970).
StartTime == WINDOW + MIN_REQUEST_INTERVAL
MaxTime == StartTime + Horizon
\* Time goes on past MaxTime for as long as a caller sleeps; every call can
\* be made to wait for at most one window and one poll.
LiveMaxTime == MaxTime + MaxWaitCalls * (WINDOW + POLL_SLEEP)
MaxAskTime == StartTime + AskHorizon
MaxCascadeTime == StartTime + CascadeHorizon
MaxCacheTime == StartTime + CacheHorizon
MaxFaultTime == StartTime + FaultHorizon

VARIABLES
    clock,              \* time.time()
    today,              \* datetime.now(), the calendar day
    AI_AVAILABLE,       \* ai_helper.py:109-124, fixed at import
    min_request_interval, \* ai_helper.py:29, the value the module holds
    held,               \* per handler: the locks it holds (ai_helper.py:32,
                        \* 37, 73, 77); stays empty where the blocks under a
                        \* lock are taken as single steps
    twin,               \* two runs compared: the script both follow and
                        \* what the first one did (run 0: nothing compared)
    request_times,      \* ai_helper.py:31
    LAST_REQUEST_TIME,  \* ai_helper.py:28
    passed,             \* history: every timestamp recorded, none pruned
    AI_CACHE,           \* ai_helper.py:35, a dict in insertion order
    heap,               \* the response dicts, by identity
    evicted,            \* history: the puts whose entry the clean-up deleted
    daily_usage,        \* ai_helper.py:76
    model_usage,        \* ai_helper.py:72
    th,                 \* per handler: program counter and locals
    calls,              \* number of top-level calls started
    wins                \* history: cascade successes on a fallback model
                        \* since the counters were last reset

vars == <<clock, today, AI_AVAILABLE, min_request_interval, held, twin,
          request_times,
          LAST_REQUEST_TIME, passed, AI_CACHE, heap, evicted, daily_usage,
          model_usage, th, calls, wins>>

limiter == <<request_times, LAST_REQUEST_TIME, passed>>
config == <<AI_AVAILABLE, min_request_interval, held, twin>>
store == <<AI_CACHE, heap, evicted>>
usage == <<daily_usage, model_usage, wins>>
times == <<clock, today>>

(***************************************************************************)
(* Rate limiter                                                            *)
(***************************************************************************)
\* request_times = [t for t in request_times if now - t < 60]
PruneTimes(ts, now) == SelectSeq(ts, LAMBDA t : now - t < WINDOW)

\* a can_make_request that lets one request too many into the window
OverCap(ts, last, now) ==
    Len(ts) <= MAX_REQUESTS_PER_MINUTE /\ now - last >= min_request_interval

\* a can_make_request that never returns True
NeverUnder(ts, last, now) == FALSE

\* The two checks of can_make_request, made on the pruned list.
UnderLimits(ts, last, now) ==
    IF Len(ts) >= MAX_REQUESTS_PER_MINUTE THEN FALSE
    ELSE IF now - last < min_request_interval THEN FALSE
    ELSE TRUE

(***************************************************************************)
(* Response cache                                                          *)
(***************************************************************************)
\* json.dumps(context, sort_keys=True) if context else ""
ContextStr(context) ==
    IF context = NoContext THEN <<>>
    ELSE IF context = "ctx" THEN <<"j">>
    ELSE <<"j2">>

\* md5(f"{prompt}{context_str}"), the hash taken as injective
get_cache_key(prompt, context) == prompt \o ContextStr(context)

\* position of cache_key in AI_CACHE, 0 when it is not in it
CacheIndex(cache, key) ==
    IF \E i \in 1..Len(cache) : cache[i].key = key
    THEN CHOOSE i \in 1..Len(cache) : cache[i].key = key
    ELSE 0

RemoveAt(s, i) == SubSeq(s, 1, i - 1) \o SubSeq(s, i + 1, Len(s))

\* A variant of Fresh that still accepts an entry exactly CACHE_TTL old.
FreshInclusive(entry, now) == now - entry.timestamp <= CACHE_TTL

\* time.time() - cached_item['timestamp'] < CACHE_EXPIRY_MINUTES * 60
Fresh(entry, now) == now - entry.timestamp < CACHE_TTL

\* get_cached_response: is it a hit
CacheHit(cache, key, now) ==
    /\ CacheIndex(cache, key) # 0
    /\ Fresh(cache[CacheIndex(cache, key)], now)

\* A variant of CacheAfterGet that deletes the entry it finds, fresh or not.
CacheTakenOut(cache, key, now) ==
    IF CacheIndex(cache, key) # 0
    THEN RemoveAt(cache, CacheIndex(cache, key))
    ELSE cache

\* get_cached_response: the cache it leaves (an expired entry is deleted)
CacheAfterGet(cache, key, now) ==
    IF CacheIndex(cache, key) # 0 /\ ~CacheHit(cache, key, now)
    THEN RemoveAt(cache, CacheIndex(cache, key))
    ELSE cache

\* A variant of OldestIndex that picks the entry put last.
NewestIndex(cache) == Len(cache)

\* min(AI_CACHE.keys(), key=timestamp): the first of the oldest entries
OldestIndex(cache) ==
    CHOOSE i \in 1..Len(cache) :
        /\ \A j \in 1..Len(cache) : cache[i].timestamp <= cache[j].timestamp
        /\ \A j \in 1..(i - 1) : cache[j].timestamp > cache[i].timestamp

\* AI_CACHE[cache_key] = {...}: a known key keeps its place in the dict
CacheInsert(cache, entry) ==
    IF CacheIndex(cache, entry.key) # 0
    THEN [cache EXCEPT ![CacheIndex(cache, entry.key)] = entry]
    ELSE Append(cache, entry)

\* the clean-up of cache_response
CacheTrim(cache) ==
    IF Len(cache) > CACHE_CAPACITY
    THEN RemoveAt(cache, OldestIndex(cache))
    ELSE cache

\* history: the puts whose entries are in the cache before and not after
Dropped(before, after) ==
    {before[i].by : i \in {j \in 1..Len(before) :
                              \A n \in 1..Len(after) :
                                  after[n].key # before[j].key}}

\* cache_response; by is history: the call that stored the entry
cache_response(cache, key, obj, now, by) ==
    CacheTrim(CacheInsert(cache,
        [key |-> key, obj |-> obj, timestamp |-> now, by |-> by]))

(***************************************************************************)
(* Usage counters                                                          *)
(***************************************************************************)
NoDate == 0

RolledOver(du, day) == du.date # day

\* A variant of log_usage_stats that counts the request twice.
CountedTwice(du, day) ==
    [date |-> day,
     requests |-> (IF du.date # day THEN 0 ELSE du.requests) + 2,
     cache_hits |-> IF du.date # day THEN 0 ELSE du.cache_hits,
     model_switches |-> IF du.date # day THEN 0 ELSE du.model_switches]

\* log_usage_stats, the block under usage_lock
log_usage_stats(du, day) ==
    LET d == IF RolledOver(du, day)
             THEN [date |-> day, requests |-> 0, cache_hits |-> 0,
                   model_switches |-> 0]
             ELSE du
    IN [d EXCEPT !.requests = @ + 1]

\* A variant of log_model_usage that counts no attempt for a failure.
UncountedFailure(mu, name, success) ==
    LET known == IF name \in DOMAIN mu THEN mu
                 ELSE mu @@ (name :> [attempts |-> 0, successes |-> 0,
                                      failures |-> 0])
    IN IF success
       THEN [known EXCEPT ![name].attempts = @ + 1, ![name].successes = @ + 1]
       ELSE [known EXCEPT ![name].failures = @ + 1]

\* log_model_usage: a model gets its counters at its first attempt
log_model_usage(mu, name, success) ==
    LET known == IF name \in DOMAIN mu THEN mu
                 ELSE mu @@ (name :> [attempts |-> 0, successes |-> 0,
                                      failures |-> 0])
    IN IF success
       THEN [known EXCEPT ![name].attempts = @ + 1, ![name].successes = @ + 1]
       ELSE [known EXCEPT ![name].attempts = @ + 1, ![name].failures = @ + 1]

\* A variant of IsFallbackModel that takes the primary model for a fallback.
AnyModel(m) == m.priority >= 1

\* if model_config["priority"] > 1
IsFallbackModel(m) == m.priority > 1

\* A variant of NextModelIndex that passes over a model.
SkipModelIndex(i) == i + 2

\* for model_config in FALLBACK_MODELS: the model tried after the i-th
NextModelIndex(i) == i + 1

(***************************************************************************)
(* State                                                                   *)
(***************************************************************************)
NoResult == [kind |-> "none", obj |-> 0, msg |-> "", sfx |-> 0]
Static(m) == [kind |-> "static", obj |-> 0, msg |-> m, sfx |-> 0]
Ref(o) == [kind |-> "ref", obj |-> o, msg |-> "", sfx |-> 0]
NoText == [base |-> "", sfx |-> 0]

\* ai_response["content"] as the holder of the dict reads it
ContentOf(result, hp) ==
    IF result.kind = "ref" THEN hp[result.obj]
    ELSE [base |-> result.msg, sfx |-> result.sfx]

IdleThread ==
    [pc |-> "idle", fn |-> "none", post |-> FALSE, key |-> <<>>,
     prompt |-> <<>>, context |-> NoContext,
     fault |-> "none", ferr |-> "other", now |-> 0, wake |-> 0, tday |-> 0,
     mi |-> 0, att |-> 0, retries |-> 0, resp |-> NoResponse, err |-> "",
     result |-> NoResult,
     \* history of the call
     cid |-> 0, tried |-> <<>>, nprov |-> 0, sw |-> 0, path |-> "",
     expired |-> FALSE, ret |-> NoText,
     \* the list get_model_usage_stats returned
     stats |-> <<>>]

\* no run is compared with another
NoTwin == [run |-> 0]

\* the module after import, MIN_REQUEST_INTERVAL set to interval
InitAt(interval) ==
    /\ clock = StartTime
    /\ today = 1
    /\ AI_AVAILABLE \in BOOLEAN
    /\ min_request_interval = interval
    /\ held = [h \in Handlers |-> {}]
    /\ twin = NoTwin
    /\ request_times = <<>>
    /\ LAST_REQUEST_TIME = 0
    /\ passed = <<>>
    /\ AI_CACHE = <<>>
    /\ heap = <<>>
    /\ evicted = {}
    /\ daily_usage = [date |-> NoDate, requests |-> 0, cache_hits |-> 0,
                      model_switches |-> 0]
    /\ model_usage = [n \in {} |-> 0]
    /\ th = [h \in Handlers |-> IdleThread]
    /\ calls = 0
    /\ wins = 0

Init == InitAt(MIN_REQUEST_INTERVAL)

\* time passes
Tick(maxTime) ==
    /\ clock < maxTime
    /\ clock' = clock + 1
    /\ UNCHANGED <<today, config, limiter, store, usage, th, calls>>

\* midnight passes
Midnight ==
    /\ today < 1 + MaxMidnights
    /\ today' = today + 1
    /\ UNCHANGED <<clock, config, limiter, store, usage, th, calls>>


(***************************************************************************)
(* wait_for_rate_limit                                                     *)
(***************************************************************************)
\* ask_deepseek returns result to its caller.  bot.py:606/689 return
\* ai_response["content"]; the career-question branch (bot.py:483-484) goes
\* on, if "daily AI limit" is not in the content, to
\* extract_job_interest(message), which calls make_ai_request_with_retry.
\* path and ret are history: how the call ended and the content it returned.
AskReturns(t, result, path, ret) ==
    LET r == [t EXCEPT !.result = result, !.path = path, !.ret = ret,
                       !.now = 0, !.wake = 0, !.mi = 0, !.att = 0,
                       !.resp = NoResponse, !.err = "", !.fault = "none",
                       !.ferr = "other",
                       !.nprov = Len(t.tried), !.tried = <<>>, !.sw = 0]
    IN  IF t.post /\ ret.base # LimitMsg
        THEN [r EXCEPT !.pc = "wait", !.fn = "extract"]
        ELSE [r EXCEPT !.pc = "done"]

\* if "429" in error_msg or "rate limit" in error_msg.lower()
IsRateLimitError(e) == e = "429"

\* A variant of Caught that answers with the message of the exhausted cascade.
CaughtAsBusy(t) ==
    AskReturns(t, Static(BusyMsg), "caught", [base |-> BusyMsg, sfx |-> 0])

\* the except branch of ask_deepseek; t.ferr is the class of the exception
\* (the TypeError of a None content is not rate-limit-class)
Caught(t) ==
    IF IsRateLimitError(t.ferr)
    THEN AskReturns(t, Static(LimitMsg), "caught",
                    [base |-> LimitMsg, sfx |-> 0])
    ELSE AskReturns(t, Static(ConnectMsg), "caught",
                    [base |-> ConnectMsg, sfx |-> 0])

\* an exception leaves ask_deepseek
Raised(t) == [IdleThread EXCEPT !.pc = "raised", !.fn = t.fn, !.cid = t.cid,
                                !.key = t.key, !.fault = t.fault]

\* wait_for_rate_limit as one step: a poll of can_make_request that fails
\* only prunes; one that succeeds is followed by the recording block
WaitForRateLimit(h) ==
    /\ th[h].pc = "wait"
    /\ IF th[h].fault = "rate"
       THEN /\ th' = [th EXCEPT ![h] = Caught(th[h])]
            /\ UNCHANGED limiter
       ELSE LET pruned == PruneTimes(request_times, clock)
            IN IF UnderLimits(pruned, LAST_REQUEST_TIME, clock)
               THEN /\ request_times' = Append(pruned, clock)
                    /\ LAST_REQUEST_TIME' = clock
                    /\ passed' = Append(passed, clock)
                    /\ th' = [th EXCEPT ![h].pc = "cascade"]
               ELSE /\ pruned # request_times
                    /\ request_times' = pruned
                    /\ UNCHANGED <<LAST_REQUEST_TIME, passed, th>>
    /\ UNCHANGED <<times, config, store, usage, calls>>

\* what a handler does when wait_for_rate_limit() has returned: back to the
\* caller for a direct call, and into the model loop of
\* make_ai_request_with_retry otherwise (range(max_retries) is empty for
\* max_retries = 0: no model is tried)
AfterWait(t) ==
    IF t.fn = "wait" THEN [t EXCEPT !.pc = "wait_ret", !.now = 0]
    ELSE IF t.retries = 0
         THEN [t EXCEPT !.pc = "casc_ret", !.now = 0, !.resp = NoResponse]
         ELSE [t EXCEPT !.pc = "attempt", !.now = 0, !.mi = 1, !.att = 0]

\* a handler calls wait_for_rate_limit()
StartWait(h) ==
    /\ th[h].pc = "idle"
    /\ calls < MaxWaitCalls
    /\ calls' = calls + 1
    /\ th' = [th EXCEPT ![h].pc = "cm_now", ![h].fn = "wait"]
    /\ UNCHANGED <<times, config, limiter, store, usage>>

\* can_make_request: now = time.time(), read before the lock is taken
CmNow(h) ==
    /\ th[h].pc = "cm_now"
    /\ th' = [th EXCEPT ![h].pc = "cm_check", ![h].now = clock]
    /\ UNCHANGED <<times, config, limiter, store, usage, calls>>

\* can_make_request: the block under request_lock, then the loop test of
\* wait_for_rate_limit (sleep on False, go on to record on True)
CmCheck(h) ==
    /\ th[h].pc = "cm_check"
    /\ request_times' = PruneTimes(request_times, th[h].now)
    /\ IF UnderLimits(request_times', LAST_REQUEST_TIME, th[h].now)
       THEN th' = [th EXCEPT ![h].pc = "rec_now", ![h].now = 0]
       ELSE th' = [th EXCEPT ![h].pc = "sleep", ![h].now = 0,
                             ![h].wake = clock + POLL_SLEEP]
    /\ UNCHANGED <<times, config, LAST_REQUEST_TIME, passed, store, usage,
                   calls>>

\* time.sleep(0.5) returns
WakeUp(h) ==
    /\ th[h].pc = "sleep"
    /\ clock >= th[h].wake
    /\ th' = [th EXCEPT ![h].pc = "cm_now", ![h].wake = 0]
    /\ UNCHANGED <<times, config, limiter, store, usage, calls>>

\* wait_for_rate_limit: now = time.time() after the loop
RecNow(h) ==
    /\ th[h].pc = "rec_now"
    /\ th' = [th EXCEPT ![h].pc = "rec_append", ![h].now = clock]
    /\ UNCHANGED <<times, config, limiter, store, usage, calls>>

\* wait_for_rate_limit: the recording block under request_lock
RecAppend(h) ==
    /\ th[h].pc = "rec_append"
    /\ request_times' = Append(request_times, th[h].now)
    /\ LAST_REQUEST_TIME' = th[h].now
    /\ passed' = Append(passed, th[h].now)
    /\ th' = [th EXCEPT ![h] = AfterWait(th[h])]
    /\ UNCHANGED <<times, config, store, usage, calls>>

\* wait_for_rate_limit returns to a caller that called it directly
WaitReturn(h) ==
    /\ th[h].pc = "wait_ret"
    /\ th' = [th EXCEPT ![h] = IdleThread]
    /\ UNCHANGED <<times, config, limiter, store, usage, calls>>

RateLimiterStep(h) ==
    \/ CmNow(h)
    \/ CmCheck(h)
    \/ WakeUp(h)
    \/ RecNow(h)
    \/ RecAppend(h)

(***************************************************************************)
(* make_ai_request_with_retry: the model loop, step by step                *)
(***************************************************************************)
\* A variant of NoClient that takes the client for granted.
ClientAssumed(available) == FALSE

\* if not AI_AVAILABLE or not client (client is None exactly when
\* AI_AVAILABLE is False, ai_helper.py:109-124)
NoClient(available) == ~available

\* a handler calls make_ai_request_with_retry(messages, max_retries), as
\* extract_job_interest and get_job_category_recommendation do
StartCascade(h) ==
    /\ th[h].pc = "idle"
    /\ calls < MaxCascadeCalls
    /\ calls' = calls + 1
    /\ \E r \in 0..MaxRetries :
         th' = [th EXCEPT ![h] =
                  IF NoClient(AI_AVAILABLE)
                  THEN [IdleThread EXCEPT !.pc = "casc_ret", !.fn = "cascade",
                                          !.retries = r, !.cid = calls + 1]
                  ELSE [IdleThread EXCEPT !.pc = "cm_now", !.fn = "cascade",
                                          !.retries = r, !.cid = calls + 1]]
    /\ UNCHANGED <<times, config, limiter, store, usage>>

\* client.chat.completions.create(...) returns or raises
Attempt(h) ==
    /\ th[h].pc = "attempt"
    /\ \E o \in {Response} \cup Errors :
         IF o = Response
         THEN /\ th' = [th EXCEPT ![h].pc = "log_ok", ![h].resp = o,
                                  ![h].tried = Append(@, th[h].mi)]
              /\ wins' = IF FALLBACK_MODELS[th[h].mi].priority > 1
                         THEN wins + 1 ELSE wins
         ELSE /\ th' = [th EXCEPT ![h].pc = "log_fail", ![h].err = o,
                                  ![h].tried = Append(@, th[h].mi)]
              /\ UNCHANGED wins
    /\ UNCHANGED <<times, config, limiter, store, daily_usage,
                   model_usage, calls>>

\* log_model_usage(model_name, True), then the test of the priority
LogOk(h) ==
    /\ th[h].pc = "log_ok"
    /\ model_usage' = log_model_usage(model_usage,
                                      FALLBACK_MODELS[th[h].mi].name, TRUE)
    /\ th' = [th EXCEPT ![h].pc = IF IsFallbackModel(FALLBACK_MODELS[th[h].mi])
                                  THEN "switch" ELSE "casc_ret"]
    /\ UNCHANGED <<times, config, limiter, store, daily_usage, wins, calls>>

\* with usage_lock: daily_usage["model_switches"] += 1; return response
Switch(h) ==
    /\ th[h].pc = "switch"
    /\ daily_usage' = [daily_usage EXCEPT !.model_switches = @ + 1]
    /\ th' = [th EXCEPT ![h].pc = "casc_ret", ![h].sw = @ + 1]
    /\ UNCHANGED <<times, config, limiter, store, model_usage, wins, calls>>

\* A variant of ToNextModel that ends the call at the first model that fails.
GiveUp(t) == [t EXCEPT !.pc = "casc_ret", !.resp = NoResponse, !.err = ""]

\* A variant of ToNextModel that starts again on the model that failed.
StayOnModel(t) == [t EXCEPT !.pc = "attempt", !.att = 0, !.err = ""]

\* the loop moves to the next model, or ends with return None
ToNextModel(t) ==
    IF NextModelIndex(t.mi) > NumModels
    THEN [t EXCEPT !.pc = "casc_ret", !.resp = NoResponse, !.err = ""]
    ELSE [t EXCEPT !.pc = "attempt", !.mi = NextModelIndex(t.mi), !.att = 0,
                   !.err = ""]

\* A variant of IsRateLimited that takes no error for a rate limit.
NeverRateLimited(error_msg) == FALSE

\* if "429" in error_msg or "rate limit" in error_msg.lower()
IsRateLimited(error_msg) == error_msg = "429"

\* the except branch: log_model_usage(model_name, False), then break / retry
LogFail(h) ==
    /\ th[h].pc = "log_fail"
    /\ model_usage' = log_model_usage(model_usage,
                                      FALLBACK_MODELS[th[h].mi].name, FALSE)
    /\ th' = [th EXCEPT ![h] =
                IF IsRateLimited(th[h].err) THEN ToNextModel(th[h])
                ELSE IF th[h].att = th[h].retries - 1 THEN ToNextModel(th[h])
                ELSE [th[h] EXCEPT !.pc = "backoff", !.err = "",
                                   !.wake = clock + BACKOFF_SLEEP]]
    /\ UNCHANGED <<times, config, limiter, store, daily_usage, wins, calls>>

\* time.sleep(0.5) returns; continue with the next attempt on the model
Backoff(h) ==
    /\ th[h].pc = "backoff"
    /\ clock >= th[h].wake
    /\ th' = [th EXCEPT ![h].pc = "attempt", ![h].att = @ + 1, ![h].wake = 0]
    /\ UNCHANGED <<times, config, limiter, store, usage, calls>>

\* make_ai_request_with_retry returns to a caller that called it directly
CascadeReturn(h) ==
    /\ th[h].pc = "casc_ret"
    /\ th[h].fn = "cascade"
    /\ th' = [th EXCEPT ![h] = IdleThread]
    /\ UNCHANGED <<times, config, limiter, store, usage, calls>>

CascadeStep(h) ==
    \/ Attempt(h)
    \/ LogOk(h)
    \/ Switch(h)
    \/ LogFail(h)
    \/ Backoff(h)
    \/ CascadeReturn(h)

(***************************************************************************)
(* make_ai_request_with_retry: the model loop as one step                  *)
(***************************************************************************)
Outcomes == {Response} \cup Errors

\* The loops of make_ai_request_with_retry from attempt att on model mi, os[k]
\* being the outcome of the next provider call: the models called, in order,
\* and whether the last call gave a response.
RECURSIVE ModelLoop(_, _, _, _, _, _)
ModelLoop(mi, att, retries, os, k, tried) ==
    IF retries = 0 \/ mi > NumModels THEN [tried |-> tried, won |-> FALSE]
    ELSE IF os[k] = Response THEN [tried |-> Append(tried, mi), won |-> TRUE]
    ELSE IF os[k] = "429" \/ att = retries - 1
         THEN ModelLoop(NextModelIndex(mi), 0, retries, os, k + 1,
                        Append(tried, mi))
         ELSE ModelLoop(mi, att + 1, retries, os, k + 1, Append(tried, mi))

\* the log_model_usage calls of a run of the loop
RECURSIVE LogRun(_, _, _)
LogRun(mu, tried, won) ==
    IF tried = <<>> THEN mu
    ELSE LogRun(log_model_usage(mu, FALLBACK_MODELS[Head(tried)].name,
                                won /\ Len(tried) = 1),
                Tail(tried), won)

\* the model that gave the response of a run
Winner(run) == FALLBACK_MODELS[run.tried[Len(run.tried)]]

\* the model loop of make_ai_request_with_retry, every provider call of it
\* having returned or raised
Cascade(h) ==
    /\ th[h].pc = "cascade"
    /\ \E os \in [1..(NumModels * th[h].retries) -> Outcomes] :
         LET run == ModelLoop(1, 0, th[h].retries, os, 1, <<>>)
             switched == run.won /\ IsFallbackModel(Winner(run))
         IN /\ model_usage' = LogRun(model_usage, run.tried, run.won)
            /\ daily_usage' = IF switched
                              THEN [daily_usage EXCEPT !.model_switches = @ + 1]
                              ELSE daily_usage
            /\ wins' = IF run.won /\ Winner(run).priority > 1
                       THEN wins + 1 ELSE wins
            /\ th' = [th EXCEPT ![h].pc = "casc_ret",
                                ![h].resp = IF run.won THEN Response
                                            ELSE NoResponse,
                                ![h].sw = IF switched THEN 1 ELSE 0,
                                ![h].tried = run.tried]
    /\ UNCHANGED <<times, config, limiter, store, calls>>

(***************************************************************************)
(* ask_deepseek                                                            *)
(***************************************************************************)
\* ask_deepseek(prompt, context) up to the cache lookup; post says that the
\* caller is the career-question branch of process_whatsapp_message
BeginAsk(h, prompt, context, post, fault) ==
    LET t == [IdleThread EXCEPT !.fn = "ask", !.post = post,
                                !.key = get_cache_key(prompt, context),
                                !.retries = DefaultMaxRetries,
                                !.fault = fault, !.cid = calls + 1]
    IN  IF NoClient(AI_AVAILABLE)
        THEN AskReturns(t, Static(UnavailableMsg), "unavailable",
                        [base |-> UnavailableMsg, sfx |-> 0])
        ELSE IF fault = "key" THEN Raised(t)
        ELSE [t EXCEPT !.pc = "cache_get"]

\* the classes of exception a statement inside the try may raise at point f
\* (the statements before the try are not caught, whatever they raise)
FaultClasses(f) ==
    IF f \in {"rate", "extract", "cache_put"} THEN Errors ELSE {"other"}

\* a handler calls ask_deepseek(prompt) and returns its content
\* (bot.py:606, bot.py:689)
StartAsk(h, faults) ==
    /\ th[h].pc = "idle"
    /\ calls < MaxCalls
    /\ calls' = calls + 1
    /\ \E p \in Prompts, f \in faults :
         \E e \in FaultClasses(f) :
            LET t == BeginAsk(h, p, NoContext, FALSE, f)
            IN th' = [th EXCEPT ![h] = IF t.pc = "cache_get"
                                       THEN [t EXCEPT !.ferr = e] ELSE t]
    /\ UNCHANGED <<times, config, limiter, store, usage>>

\* process_whatsapp_message on a career question (bot.py:470-480): the
\* context is the user's, never empty
StartMessage(h, faults) ==
    /\ th[h].pc = "idle"
    /\ AI_AVAILABLE
    /\ calls < MaxCalls
    /\ calls' = calls + 1
    /\ \E f \in faults :
         th' = [th EXCEPT ![h] = BeginAsk(h, <<"q">>, "ctx", TRUE, f)]
    /\ UNCHANGED <<times, config, limiter, store, usage>>

\* cached_response = get_cached_response(cache_key)
CacheGet(h) ==
    /\ th[h].pc = "cache_get"
    /\ IF th[h].fault = "cache_get"
       THEN /\ th' = [th EXCEPT ![h] = Raised(th[h])]
            /\ UNCHANGED AI_CACHE
       ELSE /\ AI_CACHE' = CacheAfterGet(AI_CACHE, th[h].key, clock)
            /\ IF CacheHit(AI_CACHE, th[h].key, clock)
               THEN th' = [th EXCEPT ![h].pc = "hit_count",
                             ![h].result =
                                Ref(AI_CACHE[CacheIndex(AI_CACHE, th[h].key)].obj)]
               ELSE th' = [th EXCEPT ![h].pc = "log_today",
                             ![h].expired = (CacheIndex(AI_CACHE, th[h].key) # 0)]
    /\ UNCHANGED <<times, config, limiter, heap, evicted, usage, calls>>

\* with usage_lock: daily_usage["cache_hits"] += 1; return cached_response
HitCount(h) ==
    /\ th[h].pc = "hit_count"
    /\ IF th[h].fault = "hit_count"
       THEN /\ th' = [th EXCEPT ![h] = Raised(th[h])]
            /\ UNCHANGED daily_usage
       ELSE /\ daily_usage' = [daily_usage EXCEPT !.cache_hits = @ + 1]
            /\ th' = [th EXCEPT ![h] =
                        AskReturns(th[h], th[h].result, "hit",
                                   ContentOf(th[h].result, heap))]
    /\ UNCHANGED <<times, config, limiter, store, model_usage, wins, calls>>

\* log_usage_stats: today = datetime.now(), read before the lock is taken
LogToday(h) ==
    /\ th[h].pc = "log_today"
    /\ th' = [th EXCEPT ![h].pc = "log_usage", ![h].tday = today]
    /\ UNCHANGED <<times, config, limiter, store, usage, calls>>

\* log_usage_stats: the block under usage_lock; then ask_deepseek enters
\* make_ai_request_with_retry, which calls wait_for_rate_limit
LogUsage(h) ==
    /\ th[h].pc = "log_usage"
    /\ IF th[h].fault = "usage"
       THEN /\ th' = [th EXCEPT ![h] = Raised(th[h])]
            /\ UNCHANGED <<daily_usage, wins>>
       ELSE /\ daily_usage' = log_usage_stats(daily_usage, th[h].tday)
            /\ wins' = IF RolledOver(daily_usage, th[h].tday) THEN 0 ELSE wins
            /\ th' = [th EXCEPT ![h].pc = "wait", ![h].tday = 0]
    /\ UNCHANGED <<times, config, limiter, store, model_usage, calls>>

\* A variant of ContentOr that keeps an empty content.
KeepContent(content) == content

\* content or "I'm sorry, I couldn't generate a response. Please try again."
ContentOr(content) == IF content = EmptyContent THEN Placeholder ELSE content

\* A variant of HasResponse that takes None for a response.
AnyResponse(resp) == TRUE

\* A variant of HasResponse that gives up once the day's requests are spent.
HasResponseInBudget(resp) ==
    resp # NoResponse /\ daily_usage.requests <= MaxCalls

\* if not response: ... (ask_deepseek, after make_ai_request_with_retry)
HasResponse(resp) == resp # NoResponse

\* ask_deepseek after make_ai_request_with_retry has returned, to its return
AskAfterCascade(h) ==
    /\ th[h].pc = "casc_ret"
    /\ th[h].fn = "ask"
    /\ IF ~HasResponse(th[h].resp)
       THEN \* if not response: return the fallback
            /\ th' = [th EXCEPT ![h] =
                        AskReturns(th[h], Static(BusyMsg), "exhausted",
                                   [base |-> BusyMsg, sfx |-> 0])]
            /\ UNCHANGED store
       ELSE \E content \in Contents :
            IF content = NoneContent \/ th[h].fault \in {"extract", "cache_put"}
            THEN \* content[:50] of a None content (a TypeError), or the
                 \* injected fault, raises inside the try
                 /\ th' = [th EXCEPT ![h] =
                             IF content = NoneContent /\ th[h].fault # "extract"
                             THEN Caught([th[h] EXCEPT !.ferr = "other"])
                             ELSE Caught(th[h])]
                 /\ UNCHANGED store
            ELSE \* response_dict is built, cached and returned
                 /\ heap' = Append(heap, [base |-> ContentOr(content), sfx |-> 0])
                 /\ AI_CACHE' = cache_response(AI_CACHE, th[h].key,
                                               Len(heap) + 1, clock, th[h].cid)
                 /\ evicted' = evicted \cup Dropped(AI_CACHE, AI_CACHE')
                 /\ th' = [th EXCEPT ![h] =
                             AskReturns(th[h], Ref(Len(heap) + 1), "live",
                                        [base |-> ContentOr(content), sfx |-> 0])]
    /\ UNCHANGED <<times, config, limiter, usage, calls>>

(***************************************************************************)
(* The callers of ask_deepseek                                             *)
(***************************************************************************)
\* extract_job_interest: the content names a category ("a1" stands for it)
Suggests(content) == content = "a1"

\* ai_response["content"] += suggestion: the dict is changed in place
AppendSuggestion(result, hp) ==
    IF result.kind = "ref"
    THEN [hp EXCEPT ![result.obj].sfx = @ + 1]
    ELSE hp

\* extract_job_interest returns (None when there is no response or reading
\* the content raises); bot.py:485-492 append the suggestion to
\* ai_response["content"] and return it
ExtractReturn(h) ==
    /\ th[h].pc = "casc_ret"
    /\ th[h].fn = "extract"
    /\ LET t == [th[h] EXCEPT !.pc = "done", !.mi = 0, !.att = 0, !.sw = 0,
                              !.resp = NoResponse, !.tried = <<>>]
       IN \E content \in IF th[h].resp = NoResponse THEN {NoneContent}
                          ELSE Contents :
          IF Suggests(content)
          THEN /\ heap' = AppendSuggestion(th[h].result, heap)
               /\ th' = [th EXCEPT ![h] =
                            IF t.result.kind = "ref" THEN t
                            ELSE [t EXCEPT !.result.sfx = @ + 1]]
          ELSE /\ th' = [th EXCEPT ![h] = t]
               /\ UNCHANGED heap
    /\ UNCHANGED <<times, config, limiter, AI_CACHE, evicted, usage,
                   calls>>

\* the handler has answered its message
Finish(h) ==
    /\ th[h].pc \in {"done", "raised"}
    /\ th' = [th EXCEPT ![h] = IdleThread]
    /\ UNCHANGED <<times, config, limiter, store, usage, calls>>

AskStep(h) ==
    \/ CacheGet(h)
    \/ HitCount(h)
    \/ LogToday(h)
    \/ LogUsage(h)
    \/ WaitForRateLimit(h)
    \/ Cascade(h)
    \/ AskAfterCascade(h)
    \/ Finish(h)

(***************************************************************************)
(* The cache functions called on their own                                 *)
(***************************************************************************)
CacheKeys == {<<"k1">>, <<"k2">>, <<"k3">>}

\* cache_response(cache_key, response) with a new response dict
CacheResponseCall(k) ==
    /\ calls < MaxCacheCalls
    /\ calls' = calls + 1
    /\ heap' = Append(heap, [base |-> "a1", sfx |-> 0])
    /\ AI_CACHE' = cache_response(AI_CACHE, k, Len(heap) + 1, clock, calls + 1)
    /\ evicted' = evicted \cup Dropped(AI_CACHE, AI_CACHE')
    /\ UNCHANGED <<times, config, limiter, usage, th>>

\* get_cached_response(cache_key)
GetCachedResponseCall(k) ==
    /\ calls < MaxCacheCalls
    /\ calls' = calls + 1
    /\ AI_CACHE' = CacheAfterGet(AI_CACHE, k, clock)
    /\ UNCHANGED <<times, config, limiter, heap, evicted, usage, th>>

(***************************************************************************)
(* Specifications                                                          *)
(***************************************************************************)
NextRL ==
    \/ Tick(MaxTime)
    \/ \E h \in Handlers : StartWait(h)
    \/ \E h \in Handlers : RateLimiterStep(h)
    \/ \E h \in Handlers : WaitReturn(h)

InitRL == Init /\ AI_AVAILABLE

\* Handlers calling wait_for_rate_limit() concurrently.
SpecRL == InitRL /\ [][NextRL]_vars

NextCascade ==
    \/ Tick(MaxCascadeTime)
    \/ \E h \in Handlers : StartCascade(h)
    \/ \E h \in Handlers : RateLimiterStep(h)
    \/ \E h \in Handlers : CascadeStep(h)

\* time passes while a caller is in time.sleep(0.5)
TickWaiting ==
    /\ clock >= MaxTime
    /\ clock < LiveMaxTime
    /\ \E h \in Handlers : th[h].pc = "sleep" /\ clock < th[h].wake
    /\ clock' = clock + 1
    /\ UNCHANGED <<today, config, limiter, store, usage, th, calls>>

TimePasses == Tick(MaxTime) \/ TickWaiting

NextRLLive ==
    \/ TimePasses
    \/ \E h \in Handlers : StartWait(h)
    \/ \E h \in Handlers : RateLimiterStep(h)
    \/ \E h \in Handlers : WaitReturn(h)

\* Handlers calling wait_for_rate_limit() concurrently, under a scheduler
\* that lets every runnable thread run and a clock that does not stop.
SpecRLLive ==
    /\ InitRL
    /\ [][NextRLLive]_vars
    /\ WF_vars(TimePasses)
    /\ \A h \in Handlers : WF_vars(RateLimiterStep(h) \/ WaitReturn(h))

\* the one thread of the burst
BurstCaller == "h1"

NextBurst ==
    \/ Tick(MaxTime)
    \/ StartWait(BurstCaller)
    \/ RateLimiterStep(BurstCaller)
    \/ WaitReturn(BurstCaller)

\* One thread calling wait_for_rate_limit() again and again, no minimum
\* interval configured.
SpecBurst == InitAt(0) /\ [][NextBurst]_vars

\* Handlers calling make_ai_request_with_retry() concurrently.
SpecCascade == Init /\ [][NextCascade]_vars

\* a handler computes cache_key = get_cache_key(prompt, context)
KeyCall(h) ==
    /\ th[h].pc = "idle"
    /\ \E p \in KeyPrompts, c \in KeyContexts :
         th' = [th EXCEPT ![h] =
                  [IdleThread EXCEPT !.pc = "key_ret", !.fn = "key",
                                     !.prompt = p, !.context = c,
                                     !.key = get_cache_key(p, c)]]
    /\ UNCHANGED <<times, config, limiter, store, usage, calls>>

\* the handler is done with the key
KeyReturn(h) ==
    /\ th[h].pc = "key_ret"
    /\ th' = [th EXCEPT ![h] = IdleThread]
    /\ UNCHANGED <<times, config, limiter, store, usage, calls>>

NextKey ==
    \/ \E h \in Handlers : KeyCall(h)
    \/ \E h \in Handlers : KeyReturn(h)

\* get_cache_key applied to prompts and contexts by two handlers.
SpecKey == Init /\ [][NextKey]_vars

NextCache ==
    \/ Tick(MaxCacheTime)
    \/ \E k \in CacheKeys : CacheResponseCall(k)
    \/ \E k \in CacheKeys : GetCachedResponseCall(k)

\* cache_response and get_cached_response called in any order; each runs
\* under cache_lock from its first statement to its last.
SpecCache == Init /\ [][NextCache]_vars

\* The points of ask_deepseek at which a statement may raise.
FaultPoints == {"key", "cache_get", "hit_count", "usage", "rate", "extract",
                "cache_put"}

NextFault ==
    \/ Tick(MaxFaultTime)
    \/ \E h \in Handlers : StartAsk(h, FaultPoints \cup {"none"})
    \/ \E h \in Handlers : AskStep(h)

\* ask_deepseek with one statement of a call raising.
SpecFault == Init /\ [][NextFault]_vars

Next ==
    \/ Tick(MaxAskTime)
    \/ \E h \in Handlers : StartAsk(h, {"none"})
    \/ \E h \in Handlers : StartMessage(h, {"none"})
    \/ \E h \in Handlers : AskStep(h)
    \/ \E h \in Handlers : ExtractReturn(h)

\* Handlers answering messages with ask_deepseek concurrently, within one
\* calendar day.
Spec == Init /\ [][Next]_vars

NextDay ==
    \/ Tick(MaxFaultTime)
    \/ Midnight
    \/ \E h \in Handlers : StartAsk(h, {"none"})
    \/ \E h \in Handlers : AskStep(h)

\* Handlers calling ask_deepseek concurrently while midnight passes.
SpecDay == Init /\ [][NextDay]_vars

(***************************************************************************)
(* The module imported without an API key                                  *)
(***************************************************************************)
InitDown == Init /\ ~AI_AVAILABLE

NextDown ==
    \/ Tick(MaxCascadeTime)
    \/ \E h \in Handlers : StartAsk(h, {"none"})
    \/ \E h \in Handlers : Finish(h)
    \/ \E h \in Handlers : StartCascade(h)
    \/ \E h \in Handlers : CascadeReturn(h)

\* Handlers calling ask_deepseek and make_ai_request_with_retry while there
\* is no client.
SpecDown == InitDown /\ [][NextDown]_vars

(***************************************************************************)
(* Two runs of one call that differ in the usage counters only             *)
(***************************************************************************)
\* the thread that makes the call
Runner == "h1"

\* contents of daily_usage and of model_usage that earlier calls leave
DailyUsageInits ==
    {[date |-> NoDate, requests |-> 0, cache_hits |-> 0, model_switches |-> 0],
     [date |-> 1, requests |-> MaxCalls, cache_hits |-> 1,
      model_switches |-> 1]}

ModelUsageInits ==
    {[n \in {} |-> 0],
     (FALLBACK_MODELS[1].name :>
        [attempts |-> MaxCalls, successes |-> 1, failures |-> MaxCalls - 1])}

\* the provider's outcome for the k-th call of a run: a script of NumModels
\* outcomes, read round and round
ScriptAt(k) == twin.script[((k - 1) % NumModels) + 1]

\* the rest of the module state at the start of a run: as after import, or
\* (warm) as left by an earlier call that cached an answer for <<"q">>
WarmTimes(warm) == IF warm THEN <<StartTime - 1>> ELSE <<>>
WarmLast(warm) == IF warm THEN StartTime - 1 ELSE 0
WarmCache(warm) ==
    IF warm
    THEN <<[key |-> get_cache_key(<<"q">>, NoContext), obj |-> 1,
            timestamp |-> StartTime - 1, by |-> 0]>>
    ELSE <<>>
WarmHeap(warm) == IF warm THEN <<[base |-> "a1", sfx |-> 0]>> ELSE <<>>

InitTwin ==
    /\ clock = StartTime
    /\ today = 1
    /\ AI_AVAILABLE = TRUE
    /\ min_request_interval = MIN_REQUEST_INTERVAL
    /\ held = [h \in Handlers |-> {}]
    /\ daily_usage \in DailyUsageInits
    /\ model_usage \in ModelUsageInits
    /\ \E fn \in {"ask", "cascade"}, p \in Prompts, r \in 0..MaxRetries,
          sc \in [1..NumModels -> Outcomes], c \in Contents,
          warm \in BOOLEAN :
          /\ fn = "ask" => r = DefaultMaxRetries
          /\ fn = "cascade" => p = <<"q">> /\ c = "a1" /\ ~warm
          /\ twin = [run |-> 1, fn |-> fn, prompt |-> p, retries |-> r,
                     script |-> sc, content |-> c, warm |-> warm,
                     du |-> daily_usage, mu |-> model_usage]
          /\ request_times = WarmTimes(warm)
          /\ LAST_REQUEST_TIME = WarmLast(warm)
          /\ passed = WarmTimes(warm)
          /\ AI_CACHE = WarmCache(warm)
          /\ heap = WarmHeap(warm)
    /\ evicted = {}
    /\ th = [h \in Handlers |-> IdleThread]
    /\ calls = 0
    /\ wins = 0

\* what a run shows of itself once its call has returned: the value
\* returned, the provider calls made, the cache and the rate window
Shown(t) ==
    [pc |-> t.pc, path |-> t.path, ret |-> t.ret, resp |-> t.resp,
     tried |-> t.tried, nprov |-> t.nprov,
     cache |-> AI_CACHE, heap |-> heap, window |-> request_times,
     last |-> LAST_REQUEST_TIME, passed |-> passed]

\* the call of the run has returned
RunOver(t) ==
    \/ t.fn = "ask" /\ t.pc \in {"done", "raised"}
    \/ t.fn = "cascade" /\ t.pc = "casc_ret"

\* the provider answers the call just made as the script says
Scripted(t, o) ==
    IF o = Response THEN t.pc = "log_ok" ELSE t.pc = "log_fail" /\ t.err = o

\* the provider answers every call of the model loop as the script says
ScriptedLoop(t) ==
    LET run == ModelLoop(1, 0, DefaultMaxRetries,
                         [k \in 1..NumModels |-> ScriptAt(k)], 1, <<>>)
    IN  /\ t.tried = run.tried
        /\ t.resp = IF run.won THEN Response ELSE NoResponse

\* the answer of the provider has the content of the script
ScriptedContent(t) ==
    \/ t.path = "exhausted"
    \/ t.path = "caught" /\ twin.content = NoneContent
    \/ /\ t.path = "live"
       /\ twin.content # NoneContent
       /\ t.ret.base = ContentOr(twin.content)

\* time passes while the run sleeps in the backoff of the model loop
TwinTick ==
    /\ th[Runner].pc = "backoff"
    /\ clock < th[Runner].wake
    /\ clock' = clock + 1
    /\ UNCHANGED <<today, config, limiter, store, usage, th, calls>>

\* the first run is over: the module is set back to the start, the usage
\* counters to other contents, and the call is made again
Rerun ==
    /\ twin.run = 1
    /\ RunOver(th[Runner])
    /\ twin' = [run |-> 2, fn |-> twin.fn, prompt |-> twin.prompt,
                retries |-> twin.retries, script |-> twin.script,
                content |-> twin.content, warm |-> twin.warm,
                du |-> twin.du, mu |-> twin.mu, shown |-> Shown(th[Runner])]
    /\ daily_usage' \in DailyUsageInits
    /\ model_usage' \in ModelUsageInits
    /\ <<daily_usage', model_usage'>> # <<twin.du, twin.mu>>
    /\ clock' = StartTime
    /\ request_times' = WarmTimes(twin.warm)
    /\ LAST_REQUEST_TIME' = WarmLast(twin.warm)
    /\ passed' = WarmTimes(twin.warm)
    /\ AI_CACHE' = WarmCache(twin.warm)
    /\ heap' = WarmHeap(twin.warm)
    /\ evicted' = {}
    /\ th' = [h \in Handlers |-> IdleThread]
    /\ calls' = 0
    /\ wins' = 0
    /\ UNCHANGED <<today, AI_AVAILABLE, min_request_interval, held>>

\* the run calls ask_deepseek(prompt) with the prompt of the script
TwinAsk ==
    /\ twin.fn = "ask"
    /\ StartAsk(Runner, {"none"})
    /\ th'[Runner].key = get_cache_key(twin.prompt, NoContext)

\* the model loop of the run, the provider following the script
TwinLoop == Cascade(Runner) /\ ScriptedLoop(th'[Runner])

\* ask_deepseek reads the content of the script from the response
TwinAfterCascade == AskAfterCascade(Runner) /\ ScriptedContent(th'[Runner])

\* the run calls make_ai_request_with_retry with max_retries of the script
TwinCascade ==
    /\ twin.fn = "cascade"
    /\ StartCascade(Runner)
    /\ th'[Runner].retries = twin.retries

\* a provider call of the run, answered as the script says
TwinAttempt ==
    /\ Attempt(Runner)
    /\ Scripted(th'[Runner], ScriptAt(Len(th'[Runner].tried)))

NextTwin ==
    \/ TwinTick
    \/ Rerun
    \/ TwinAsk
    \/ CacheGet(Runner)
    \/ HitCount(Runner)
    \/ LogToday(Runner)
    \/ LogUsage(Runner)
    \/ WaitForRateLimit(Runner)
    \/ TwinLoop
    \/ TwinAfterCascade
    \/ TwinCascade
    \/ CmNow(Runner)
    \/ CmCheck(Runner)
    \/ RecNow(Runner)
    \/ RecAppend(Runner)
    \/ TwinAttempt
    \/ LogOk(Runner)
    \/ Switch(Runner)
    \/ LogFail(Runner)
    \/ Backoff(Runner)

\* One call of ask_deepseek or of make_ai_request_with_retry, made twice
\* from the same module state but for daily_usage and model_usage, with the
\* same arguments, the same answers of the provider and the same clock.
SpecTwin == InitTwin /\ [][NextTwin]_vars

(***************************************************************************)
(* The four locks, and the blocks under them taken apart                   *)
(***************************************************************************)
Locks == {"request_lock", "cache_lock", "usage_lock", "model_lock"}

\* The locks of the with-blocks around the step that stands at t.pc:
\* can_make_request and wait_for_rate_limit (144, 168), get_cached_response
\* and cache_response (248, 262; cache_response is reached when there is a
\* response), log_usage_stats (82), the cache-hit count (293), the
\* model-switch count (214), log_model_usage (174) and
\* get_model_usage_stats (96). No block is inside another.
WithBlocks(t) ==
    IF t.pc \in {"cm_check", "rec_append"} THEN {"request_lock"}
    ELSE IF t.pc = "cache_get" THEN {"cache_lock"}
    ELSE IF t.pc = "casc_ret" /\ t.fn = "ask" /\ HasResponse(t.resp)
         THEN {"cache_lock"}
    ELSE IF t.pc \in {"hit_count", "log_usage", "switch"} THEN {"usage_lock"}
    ELSE IF t.pc \in {"log_ok", "log_fail", "stats"} THEN {"model_lock"}
    ELSE {}

\* A variant of HeldAt in which the provider is called under model_lock.
HeldAtCalling(t) ==
    IF t.pc = "attempt" THEN {"model_lock"} ELSE WithBlocks(t)

\* A variant of HeldAt in which wait_for_rate_limit records the request
\* outside request_lock.
HeldAtUnlocked(t) == IF t.pc = "rec_append" THEN {} ELSE WithBlocks(t)

\* A variant of HeldAt in which the model-switch count is made inside the
\* block of log_model_usage.
HeldAtNested(t) ==
    IF t.pc = "switch" THEN {"model_lock", "usage_lock"} ELSE WithBlocks(t)

\* the locks a handler holds while it takes the step that stands at t.pc
HeldAt(t) == WithBlocks(t)

\* with lock: the handler enters the block (threading.Lock: one holder)
Acquire(h) ==
    /\ held[h] \subseteq HeldAt(th[h])
    /\ \E l \in HeldAt(th[h]) \ held[h] :
          /\ \A o \in Handlers : l \notin held[o]
          /\ held' = [held EXCEPT ![h] = @ \cup {l}]
    /\ UNCHANGED <<times, AI_AVAILABLE, min_request_interval, twin, limiter,
                   store, usage, th, calls>>

\* the handler leaves the block
Release(h) ==
    /\ \E l \in held[h] \ HeldAt(th[h]) :
          held' = [held EXCEPT ![h] = @ \ {l}]
    /\ UNCHANGED <<times, AI_AVAILABLE, min_request_interval, twin, limiter,
                   store, usage, th, calls>>

\* the handler holds what its next step is made under, and nothing else
Ready(h) == held[h] = HeldAt(th[h])

\* ask_deepseek enters make_ai_request_with_retry, that
\* wait_for_rate_limit (ai_helper.py:316, 190)
EnterWait(h) ==
    /\ th[h].pc = "wait"
    /\ th' = [th EXCEPT ![h].pc = "cm_now"]
    /\ UNCHANGED <<times, config, limiter, store, usage, calls>>

\* the list of get_model_usage_stats: per model the attempts, the successes
\* and the success rate (successes / attempts * 100, 0 without attempts)
get_model_usage_stats(mu) ==
    [n \in DOMAIN mu |->
        [model |-> n, attempts |-> mu[n].attempts,
         successes |-> mu[n].successes,
         success_rate |-> IF mu[n].attempts > 0
                          THEN <<mu[n].successes * 100, mu[n].attempts>>
                          ELSE <<0, 1>>]]

\* the admin command calls get_model_usage_stats() (bot.py:512-513)
StartStats(h) ==
    /\ th[h].pc = "idle"
    /\ calls < MaxCalls
    /\ calls' = calls + 1
    /\ th' = [th EXCEPT ![h] = [IdleThread EXCEPT !.pc = "stats",
                                                  !.fn = "stats",
                                                  !.cid = calls + 1]]
    /\ UNCHANGED <<times, config, limiter, store, usage>>

\* get_model_usage_stats: the block under model_lock
Stats(h) ==
    /\ th[h].pc = "stats"
    /\ th' = [th EXCEPT ![h].pc = "stats_ret",
                        ![h].stats = get_model_usage_stats(model_usage)]
    /\ UNCHANGED <<times, config, limiter, store, usage, calls>>

\* get_model_usage_stats returns
StatsReturn(h) ==
    /\ th[h].pc = "stats_ret"
    /\ th' = [th EXCEPT ![h] = IdleThread]
    /\ UNCHANGED <<times, config, limiter, store, usage, calls>>

\* a handler calls ask_deepseek(<<"q">>)
LockedAsk(h) ==
    /\ Ready(h)
    /\ StartAsk(h, {"none"})
    /\ th'[h].key = get_cache_key(<<"q">>, NoContext)

\* a handler calls make_ai_request_with_retry(messages, MaxRetries)
LockedCascade(h) ==
    /\ Ready(h)
    /\ StartCascade(h)
    /\ th'[h].retries = MaxRetries

NextLocks ==
    \/ Tick(MaxFaultTime)
    \/ \E h \in Handlers : Acquire(h)
    \/ \E h \in Handlers : Release(h)
    \/ \E h \in Handlers : LockedAsk(h)
    \/ \E h \in Handlers : LockedCascade(h)
    \/ \E h \in Handlers : Ready(h) /\ StartStats(h)
    \/ \E h \in Handlers : Ready(h) /\ CacheGet(h)
    \/ \E h \in Handlers : Ready(h) /\ HitCount(h)
    \/ \E h \in Handlers : Ready(h) /\ LogToday(h)
    \/ \E h \in Handlers : Ready(h) /\ LogUsage(h)
    \/ \E h \in Handlers : Ready(h) /\ EnterWait(h)
    \/ \E h \in Handlers : Ready(h) /\ CmNow(h)
    \/ \E h \in Handlers : Ready(h) /\ CmCheck(h)
    \/ \E h \in Handlers : Ready(h) /\ WakeUp(h)
    \/ \E h \in Handlers : Ready(h) /\ RecNow(h)
    \/ \E h \in Handlers : Ready(h) /\ RecAppend(h)
    \/ \E h \in Handlers : Ready(h) /\ Attempt(h)
    \/ \E h \in Handlers : Ready(h) /\ LogOk(h)
    \/ \E h \in Handlers : Ready(h) /\ Switch(h)
    \/ \E h \in Handlers : Ready(h) /\ LogFail(h)
    \/ \E h \in Handlers : Ready(h) /\ Backoff(h)
    \/ \E h \in Handlers : Ready(h) /\ CascadeReturn(h)
    \/ \E h \in Handlers : Ready(h) /\ AskAfterCascade(h)
    \/ \E h \in Handlers : Ready(h) /\ Finish(h)
    \/ \E h \in Handlers : Ready(h) /\ Stats(h)
    \/ \E h \in Handlers : Ready(h) /\ StatsReturn(h)

\* Handlers calling ask_deepseek, make_ai_request_with_retry and
\* get_model_usage_stats concurrently, every lock taken and released in a
\* step of its own.
SpecLocks == InitRL /\ [][NextLocks]_vars

(***************************************************************************)
(* Claims                                                                  *)
(***************************************************************************)
\* The timestamps recorded within the 60 second window that ends now.
InWindow == SelectSeq(request_times, LAMBDA t : clock - t < WINDOW)

\* C1: the number of returns of wait_for_rate_limit() recorded within any
\* trailing 60 second window never exceeds MAX_REQUESTS_PER_MINUTE (and so
\* the pruned request_times is never longer than that).
C1_WindowCap == Len(InWindow) <= MAX_REQUESTS_PER_MINUTE

\* C2: any two consecutive passes through wait_for_rate_limit() are recorded
\* at least MIN_REQUEST_INTERVAL apart.
C2_MinSpacing ==
    \A i \in 1..(Len(request_times) - 1) :
        request_times[i + 1] - request_times[i] >= MIN_REQUEST_INTERVAL

\* C3: of two ask_deepseek calls with the same prompt and context that have
\* both been answered (by the provider or from the cache) within the TTL of
\* the first, at most one went to the provider, and both returned the same
\* content.  (Read in the claim's favour: the attempts on models that failed
\* are not counted, and calls that ended in a fallback message are left out.)
C3_OneProviderCall ==
    \A h1, h2 \in Handlers :
        ( /\ h1 # h2
          /\ th[h1].path \in {"live", "hit"} /\ th[h2].path \in {"live", "hit"}
          /\ th[h1].key = th[h2].key /\ th[h1].post = th[h2].post
          /\ clock - StartTime < CACHE_TTL )
        => /\ ~(th[h1].nprov >= 1 /\ th[h2].nprov >= 1)
           /\ th[h1].ret = th[h2].ret

\* C4: no exception leaves ask_deepseek, whichever single statement of the
\* call raises.
C4_NeverRaises == \A h \in Handlers : th[h].pc # "raised"

\* The steps of an ask_deepseek call around an exhausted cascade.
C5_Step ==
    \A h \in Handlers :
        /\ ( /\ th[h].pc = "casc_ret" /\ th[h].fn = "ask"
             /\ th[h].resp = NoResponse /\ th'[h] # th[h] )
           => /\ th'[h].path = "exhausted"
              /\ th'[h].result = Static(BusyMsg)
              /\ th'[h].ret = [base |-> BusyMsg, sfx |-> 0]
              /\ AI_CACHE' = AI_CACHE
              /\ heap' = heap
        /\ ( /\ th[h].pc = "cache_get" /\ th'[h] # th[h]
             /\ CacheIndex(AI_CACHE, th[h].key) = 0 )
           => th'[h].pc = "log_today"
        /\ (th[h].pc = "log_today" /\ th'[h] # th[h])
           => th'[h].pc = "log_usage"
        /\ (th[h].pc = "log_usage" /\ th'[h] # th[h])
           => th'[h].pc = "wait"
        /\ (th[h].pc = "wait" /\ th[h].fn = "ask" /\ th'[h] # th[h])
           => th'[h].pc = "cascade" /\ Len(request_times') > 0

\* C5: when every model fails, ask_deepseek returns the busy message and
\* puts nothing in AI_CACHE, and a call that finds no entry for its key goes
\* through the rate limiter to the model loop.
C5_ExhaustedNotCached ==
    /\ [][C5_Step]_vars
    /\ [](\A h \in Handlers :
            /\ ( /\ th[h].pc = "casc_ret" /\ th[h].fn = "ask"
                 /\ th[h].resp = NoResponse )
               => Len(th[h].tried) = NumModels * th[h].retries
            /\ th[h].path = "exhausted"
               => \A i \in 1..Len(AI_CACHE) : AI_CACHE[i].by # th[h].cid)

\* a call has ended exhausted, and a later call with the same key, finding
\* no entry, has passed the rate limiter and stands before the model loop
C5_Witness ==
    \E h1, h2 \in Handlers :
        /\ th[h1].pc = "done" /\ th[h1].path = "exhausted"
        /\ th[h2].pc = "cascade" /\ th[h2].fn = "ask"
        /\ th[h2].key = th[h1].key
        /\ th[h2].cid > th[h1].cid
        /\ CacheIndex(AI_CACHE, th[h1].key) = 0

\* C6: the response of a cache entry is what was stored (nothing appended
\* to it since), and a cache hit returns the content as it was stored.
C6_EntryUnchanged ==
    /\ \A i \in 1..Len(AI_CACHE) : heap[AI_CACHE[i].obj].sfx = 0
    /\ \A h \in Handlers : th[h].path = "hit" => th[h].ret.sfx = 0

\* The lookup step of ask_deepseek on a key that is in AI_CACHE.
C7_Step ==
    \A h \in Handlers :
        ( /\ th[h].pc = "cache_get" /\ th'[h] # th[h]
          /\ CacheIndex(AI_CACHE, th[h].key) # 0 )
        => LET e == AI_CACHE[CacheIndex(AI_CACHE, th[h].key)]
           IN IF clock - e.timestamp >= CACHE_TTL
              THEN /\ CacheIndex(AI_CACHE', th[h].key) = 0
                   /\ Len(AI_CACHE') = Len(AI_CACHE) - 1
                   /\ th'[h].result = NoResult
                   /\ th'[h].pc = "log_today"
              ELSE /\ AI_CACHE' = AI_CACHE
                   /\ th'[h].result = Ref(e.obj)
                   /\ th'[h].pc = "hit_count"

\* C7: an entry read when it is CACHE_TTL old or older is removed and the
\* lookup misses, and the call goes on to call the provider; a younger
\* entry is returned and stays.
C7_ExpiryOnRead ==
    /\ [][C7_Step]_vars
    /\ [](\A h \in Handlers :
            (th[h].expired /\ th[h].path # "")
            => th[h].nprov >= 1 /\ th[h].path \in {"live", "exhausted", "caught"})

\* a call that found its entry expired has answered from the provider
C7_Witness ==
    \E h \in Handlers :
        th[h].expired /\ th[h].path = "live" /\ th[h].nprov >= 1

CacheKeySet(cache) == {cache[i].key : i \in 1..Len(cache)}

\* A put (the only step that makes a response dict) on AI_CACHE.
C8_Step ==
    Len(heap') > Len(heap) =>
        \E n \in 1..Len(AI_CACHE') :
            LET new == AI_CACHE'[n]
                gone == {i \in 1..Len(AI_CACHE) :
                            AI_CACHE[i].key \notin CacheKeySet(AI_CACHE')}
            IN /\ new.obj = Len(heap')
               /\ new.timestamp = clock
               /\ IF new.key \in CacheKeySet(AI_CACHE)
                     \/ Len(AI_CACHE) < CACHE_CAPACITY
                  THEN gone = {}
                  ELSE /\ Cardinality(gone) = 1
                       /\ \A g \in gone :
                            /\ AI_CACHE[g].timestamp <= new.timestamp
                            /\ \A i \in 1..Len(AI_CACHE) :
                                 AI_CACHE[g].timestamp <= AI_CACHE[i].timestamp
               /\ \A i \in 1..Len(AI_CACHE) :
                    (i \notin gone /\ AI_CACHE[i].key # new.key)
                    => \E j \in 1..Len(AI_CACHE') : AI_CACHE'[j] = AI_CACHE[i]

\* C8: AI_CACHE never holds more than the capacity between two calls, and a
\* put that overfills it evicts exactly one entry, one with the smallest
\* timestamp of those present, and never the entry just put.
C8_BoundedEviction ==
    /\ [](Len(AI_CACHE) <= CACHE_CAPACITY)
    /\ [][C8_Step]_vars

\* a put into a full cache has had an entry evicted, and the cache is full
C8_Witness ==
    /\ evicted # {}
    /\ Len(AI_CACHE) = CACHE_CAPACITY
    /\ \E i \in 1..Len(AI_CACHE) : AI_CACHE[i].timestamp < clock

PriorityAt(tried, i) == FALLBACK_MODELS[tried[i]].priority

\* the order of the provider calls of one make_ai_request_with_retry call
C9_Order(tried) ==
    /\ tried # <<>> =>
         \A m \in 1..NumModels :
            PriorityAt(tried, 1) <= FALLBACK_MODELS[m].priority
    /\ \A i \in 1..(Len(tried) - 1) :
         \/ tried[i + 1] = tried[i]
         \/ /\ PriorityAt(tried, i) < PriorityAt(tried, i + 1)
            /\ ~ \E m \in 1..NumModels :
                   /\ PriorityAt(tried, i) < FALLBACK_MODELS[m].priority
                   /\ FALLBACK_MODELS[m].priority < PriorityAt(tried, i + 1)

\* once a provider call has given a response the call makes no other
C9_Step ==
    \A h \in Handlers :
        th[h].resp = Response
        => th'[h].tried = th[h].tried \/ th'[h] = IdleThread

\* C9: every make_ai_request_with_retry call tries the models from the
\* primary on in ascending priority, passing over none, whatever earlier
\* calls met; the first response ends the call, no later model is tried.
C9_CascadeOrder ==
    /\ [](\A h \in Handlers :
            /\ C9_Order(th[h].tried)
            /\ th[h].resp = Response
               => th[h].pc \in {"log_ok", "switch", "casc_ret"})
    /\ [][C9_Step]_vars

\* the failed attempts counted for the primary model
PrimaryFailures ==
    IF FALLBACK_MODELS[1].name \in DOMAIN model_usage
    THEN model_usage[FALLBACK_MODELS[1].name].failures
    ELSE 0

\* the second call, made after the primary model has failed twice, has
\* again tried the primary first and has its response from the second model
C9_Witness ==
    \E h \in Handlers :
        /\ th[h].cid = 2
        /\ th[h].pc = "casc_ret"
        /\ th[h].resp = Response
        /\ th[h].tried = <<1, 2>>
        /\ PrimaryFailures >= 2

\* the successes on a fallback model whose increment is still to come
PendingSwitches ==
    Cardinality({h \in Handlers : th[h].pc = "switch"})
    + Cardinality({h \in Handlers :
                     /\ th[h].pc = "log_ok"
                     /\ FALLBACK_MODELS[th[h].mi].priority > 1})

\* C10: a make_ai_request_with_retry call has incremented model_switches
\* once when it returns a response of a model of priority > 1 and not at
\* all otherwise, and the counter is the number of such successes.
C10_ModelSwitches ==
    /\ daily_usage.model_switches + PendingSwitches = wins
    /\ \A h \in Handlers :
         th[h].pc = "casc_ret" =>
            th[h].sw = IF /\ th[h].resp = Response
                          /\ PriorityAt(th[h].tried, Len(th[h].tried)) > 1
                       THEN 1 ELSE 0

\* concurrent calls have each succeeded on a fallback model and every
\* increment is in the counter
C10_Witness ==
    /\ \A h \in Handlers :
         th[h].pc = "casc_ret" /\ th[h].resp = Response /\ th[h].sw = 1
    /\ daily_usage.model_switches = Cardinality(Handlers)
    /\ PrimaryFailures >= Cardinality(Handlers)


\* C11 as stated: every failure of ask_deepseek (AI unavailable, cascade
\* exhausted, exception caught, rate-limit-class or not) returns one and
\* the same static fallback content.
C11_OneFallback ==
    \A h1, h2 \in Handlers :
        ( /\ th[h1].path \in {"unavailable", "exhausted", "caught"}
          /\ th[h2].path \in {"unavailable", "exhausted", "caught"} )
        => th[h1].ret.base = th[h2].ret.base

\* The return of ask_deepseek from the except branch, by class of exception.
C11_Step ==
    \A h \in Handlers :
        (th[h].path = "" /\ th'[h].path = "caught")
        => /\ th'[h].ret.sfx = 0
           /\ th[h].ferr # "429" => th'[h].ret.base = ConnectMsg
           /\ (th[h].ferr = "429" /\ th[h].fault \in {"rate", "extract"})
              => th'[h].ret.base = LimitMsg
           \* a fault at the cache store comes after the reading of the
           \* content, which raises a TypeError of its own on None
           /\ (th[h].ferr = "429" /\ th[h].fault = "cache_put")
              => th'[h].ret.base \in {LimitMsg, ConnectMsg}

\* C11 amended: every return value of ask_deepseek is a provider answer (or
\* the placeholder for an empty one), a cached answer, or one of four static
\* messages: the unavailable message when there is no client, the busy
\* message on cascade exhaustion, the daily-limit message for a caught
\* rate-limit-class exception and the connection message for any other.
C11_ReturnKinds ==
    /\ [](\A h \in Handlers :
            /\ th[h].path = "unavailable" => th[h].ret.base = UnavailableMsg
            /\ th[h].path = "exhausted" => th[h].ret.base = BusyMsg
            /\ th[h].path = "caught" => th[h].ret.base \in {LimitMsg, ConnectMsg}
            /\ th[h].path = "live"
               => th[h].ret.base \in Answers \cup {Placeholder}
            /\ th[h].path = "hit"
               => th[h].ret.base \in Answers \cup {Placeholder}
            /\ th[h].path \in {"", "unavailable", "exhausted", "caught",
                               "live", "hit"})
    /\ [][C11_Step]_vars

\* one call has ended in the busy message and another in the daily-limit
\* message
C11_Witness ==
    \E h1, h2 \in Handlers :
        /\ th[h1].path = "exhausted" /\ th[h1].ret.base = BusyMsg
        /\ th[h2].path = "caught" /\ th[h2].ret.base = LimitMsg

\* the provider calls logged so far by log_model_usage, models 1..n
RECURSIVE LoggedAttempts(_)
LoggedAttempts(n) ==
    IF n = 0 THEN 0
    ELSE LoggedAttempts(n - 1)
         + IF FALLBACK_MODELS[n].name \in DOMAIN model_usage
           THEN model_usage[FALLBACK_MODELS[n].name].attempts
           ELSE 0

\* C12: the provider calls never number more than MAX_REQUESTS_PER_MINUTE
\* in a trailing 60 second window and no two are closer together than
\* MIN_REQUEST_INTERVAL.  All calls so far were made between StartTime and
\* now: while that span is shorter than the window they are at most
\* MAX_REQUESTS_PER_MINUTE, and n calls span at least n - 1 intervals.
C12_OutboundGated ==
    /\ clock - StartTime < WINDOW
       => LoggedAttempts(NumModels) <= MAX_REQUESTS_PER_MINUTE
    /\ LoggedAttempts(NumModels) >= 2
       => clock - StartTime
            >= MIN_REQUEST_INTERVAL * (LoggedAttempts(NumModels) - 1)

\* C13: between a return of wait_for_rate_limit and the caller's next call
\* of it, the caller makes at most one provider call (th[h].tried lists the
\* provider calls made since the one wait_for_rate_limit of the call).
C13_OneCallPerPass ==
    \A h \in Handlers : Len(th[h].tried) <= 1

\* C14: get_cache_key gives two requests the same key if and only if they
\* have the same prompt and the same context.
C14_KeySeparates ==
    \A h1, h2 \in Handlers :
        (th[h1].pc = "key_ret" /\ th[h2].pc = "key_ret")
        => ( th[h1].key = th[h2].key
             <=> ( /\ th[h1].prompt = th[h2].prompt
                   /\ th[h1].context = th[h2].context ) )

\* C15: every value ask_deepseek returns, on every path, has a non-empty
\* text in 'content'; so has every response held by the cache.
C15_NonEmptyContent ==
    /\ \A h \in Handlers :
         th[h].path # "" => th[h].ret.base # EmptyContent
    /\ \A i \in 1..Len(AI_CACHE) : heap[AI_CACHE[i].obj].base # EmptyContent

\* the provider has answered with an empty content: one call has returned
\* the placeholder live, another has then returned it from the cache
C15_Witness ==
    \E h1, h2 \in Handlers :
        /\ th[h1].path = "live" /\ th[h1].ret.base = Placeholder
        /\ th[h2].path = "hit" /\ th[h2].ret.base = Placeholder
\* C16: wait_for_rate_limit() has no failure outcome: a caller is only ever
\* polling, sleeping, recording or returning. With the handlers calling it
\* concurrently, the clock advancing and every thread scheduled fairly,
\* every caller that has entered it eventually returns from it.
C16_EveryCallerReturns ==
    /\ [](\A h \in Handlers :
            th[h].pc \in {"idle", "cm_now", "cm_check", "sleep", "rec_now",
                          "rec_append", "wait_ret"})
    /\ \A h \in Handlers : (th[h].pc = "cm_now") ~> (th[h].pc = "wait_ret")

\* a caller returns that found the window full and had to wait for it
C16_Witness ==
    \E h \in Handlers :
        /\ th[h].pc = "wait_ret"
        /\ Len(passed) > MAX_REQUESTS_PER_MINUTE
        /\ Len(request_times) <= MAX_REQUESTS_PER_MINUTE

\* C17: with the cap at MAX_REQUESTS_PER_MINUTE (2) and no minimum interval,
\* one thread calling wait_for_rate_limit() in sequence: none of the first
\* MAX_REQUESTS_PER_MINUTE calls is sent to sleep, and the call after them
\* is not recorded before the oldest recorded timestamp is WINDOW old (every
\* recorded timestamp is at least WINDOW later than the one recorded
\* MAX_REQUESTS_PER_MINUTE passes before it).
C17_ThirdWaitsForWindow ==
    /\ calls <= MAX_REQUESTS_PER_MINUTE => th[BurstCaller].pc # "sleep"
    /\ \A i \in 1..Len(passed) :
            i > MAX_REQUESTS_PER_MINUTE
                => passed[i] - passed[i - MAX_REQUESTS_PER_MINUTE] >= WINDOW

\* the first MAX_REQUESTS_PER_MINUTE calls passed at the same instant and the
\* next one has returned, exactly when the window had room again
C17_Witness ==
    /\ th[BurstCaller].pc = "wait_ret"
    /\ Len(passed) = MAX_REQUESTS_PER_MINUTE + 1
    /\ passed[MAX_REQUESTS_PER_MINUTE] = passed[1]
    /\ passed[MAX_REQUESTS_PER_MINUTE + 1] = passed[1] + WINDOW

\* C18: with the AI client available, every invocation of ask_deepseek is
\* counted once in daily_usage["requests"], served from the cache or live:
\* when no call is under way the counter equals the number of calls made,
\* and a call served from the cache has counted a cache hit.
C18_OneRequestPerCall ==
    (AI_AVAILABLE /\ \A h \in Handlers : th[h].pc \in {"idle", "done"})
        => /\ daily_usage.requests = calls
           /\ \A h \in Handlers :
                  th[h].path = "hit" => daily_usage.cache_hits >= 1

\* C19: the three counters of daily_usage belong to the calendar day stored
\* in daily_usage["date"]: whenever ask_deepseek changes the record (an
\* increment of requests, cache_hits or model_switches, with or without the
\* reset before it), the record is afterwards that of the current day.
C19_Step == daily_usage' # daily_usage => daily_usage'.date = today'

C19_CountersOfToday == [][C19_Step]_vars

\* C20: the totals of a day are reported at the rollover only, before the
\* reset and once: a call of log_usage_stats that reports (the stored date
\* is non-empty and differs from the caller's today) reports a day that is
\* over and leaves the record on the current day, so that no later call
\* reports that day again; with the date empty nothing is reported.
C20_Step ==
    \A h \in Handlers :
        (/\ th[h].pc = "log_usage"
         /\ th'[h].pc # "log_usage"
         /\ daily_usage.date # NoDate
         /\ RolledOver(daily_usage, th[h].tday))
            => /\ daily_usage.date < today
               /\ daily_usage'.date = today

C20_ReportedOnce == [][C20_Step]_vars

\* C21: the usage counters are advisory. Two runs of ask_deepseek or of
\* make_ai_request_with_retry that differ in the initial contents of
\* daily_usage and model_usage only return the same value, make the same
\* provider calls and leave the same cache and the same rate window.
C21_CountersAdvisory ==
    (twin.run = 2 /\ RunOver(th[Runner])) => Shown(th[Runner]) = twin.shown

\* a second run has returned a live answer after a failed primary model, the
\* day's counters having been different at the start of the two runs
C21_Witness ==
    /\ twin.run = 2
    /\ RunOver(th[Runner])
    /\ th[Runner].path = "live"
    /\ th[Runner].nprov >= 2
    /\ twin.du.date # NoDate

\* a handler sleeps in the poll loop of the rate limiter or in the backoff
\* of the cascade, or is in a provider call
Waiting(h) == th[h].pc \in {"sleep", "backoff", "attempt"} /\ Ready(h)

\* C22: get_model_usage_stats is read-only: its step leaves model_usage,
\* daily_usage, AI_CACHE, request_times and LAST_REQUEST_TIME as they are and
\* calls no provider; and it cannot be blocked by waiting handlers: when
\* every other handler sleeps in the rate limiter or the backoff or is in a
\* provider call, a caller that stands before the block has model_lock or
\* finds it free.
C22_StatsStep ==
    \A h \in Handlers :
        (th[h].fn = "stats" /\ th'[h] # th[h])
            => /\ UNCHANGED <<model_usage, daily_usage, AI_CACHE, heap,
                              request_times, LAST_REQUEST_TIME>>
               /\ th'[h].tried = th[h].tried

C22_StatsReadOnly ==
    /\ [](\A h \in Handlers :
            (/\ th[h].pc = "stats"
             /\ \A o \in Handlers \ {h} : Waiting(o))
                => \/ "model_lock" \in held[h]
                   \/ \A o \in Handlers : "model_lock" \notin held[o])
    /\ [][C22_StatsStep]_vars

\* get_model_usage_stats has returned the counters of a model while the
\* other handler was in a provider call
C22_Witness ==
    \E h \in Handlers, o \in Handlers :
        /\ th[h].pc = "stats_ret"
        /\ DOMAIN th[h].stats # {}
        /\ o # h
        /\ th[o].pc = "attempt"

\* the provider calls of a call made to model m
AttemptsOn(tried, m) == Cardinality({i \in 1..Len(tried) : tried[i] = m})

\* the loop leaves the model it is at
LeavesModel(t, u) == u.pc = "casc_ret" \/ (u.pc = "attempt" /\ u.mi # t.mi)

\* C23: with retry budget r = max_retries, a model whose attempts fail with
\* errors that are not rate-limit-class has had r + 1 attempts when the
\* cascade leaves it, and a call that reaches the models has made at least
\* one attempt when it returns.
C23_Step ==
    \A h \in Handlers :
        (/\ th[h].pc = "log_fail"
         /\ th[h].err = "other"
         /\ LeavesModel(th[h], th'[h]))
            => AttemptsOn(th[h].tried, th[h].mi) = th[h].retries + 1

C23_RetryBudget ==
    /\ [](\A h \in Handlers :
            (th[h].pc = "casc_ret" /\ th[h].fn = "cascade" /\ AI_AVAILABLE)
                => Len(th[h].tried) >= 1)
    /\ [][C23_Step]_vars

\* the failures counted for the model at place m of FALLBACK_MODELS
FailuresOf(mu, m) ==
    IF FALLBACK_MODELS[m].name \in DOMAIN mu
    THEN mu[FALLBACK_MODELS[m].name].failures
    ELSE 0

\* C24: a failed attempt records one failure for its model. After a
\* rate-limit-class error the loop leaves the model without a sleep, whatever
\* retries remain; after any other error it sleeps BACKOFF_SLEEP and makes
\* the next attempt on the same model while retries remain, and leaves the
\* model otherwise.
C24_FailStep ==
    \A h \in Handlers :
        (th[h].pc = "log_fail" /\ th'[h] # th[h])
            => /\ FailuresOf(model_usage', th[h].mi)
                    = FailuresOf(model_usage, th[h].mi) + 1
               /\ IF th[h].err = "429" \/ th[h].att + 1 >= th[h].retries
                  THEN LeavesModel(th[h], th'[h])
                  ELSE /\ th'[h].pc = "backoff"
                       /\ th'[h].wake = clock + BACKOFF_SLEEP
                       /\ th'[h].mi = th[h].mi

C24_BackoffStep ==
    \A h \in Handlers :
        (th[h].pc = "backoff" /\ th'[h] # th[h])
            => /\ clock >= th[h].wake
               /\ th'[h].pc = "attempt"
               /\ th'[h].mi = th[h].mi
               /\ th'[h].att = th[h].att + 1

C24_ErrorHandling == [][C24_FailStep /\ C24_BackoffStep]_vars

\* a call with two attempts per model has left the primary model after one
\* attempt (a rate-limit-class error) and sleeps after a failure of the
\* second model
C24_Witness ==
    \E h \in Handlers :
        /\ th[h].pc = "backoff"
        /\ th[h].retries = 2
        /\ th[h].tried = <<1, 2>>

\* C25: make_ai_request_with_retry ends by returning, never by raising:
\* either the response of its last provider call, or None, which is not the
\* empty string, and None only after every model was tried (or none could
\* be: no client, or max_retries = 0).
C25_ResponseOrNone ==
    \A h \in Handlers :
        /\ th[h].pc # "raised"
        /\ (th[h].pc = "casc_ret" /\ th[h].fn = "cascade")
              => \/ /\ th[h].resp = Response
                    /\ Len(th[h].tried) >= 1
                 \/ /\ th[h].resp = NoResponse
                    /\ NoResponse # EmptyContent
                    /\ (AI_AVAILABLE /\ th[h].retries > 0)
                         => \A m \in 1..NumModels :
                                AttemptsOn(th[h].tried, m) >= 1

\* one call has returned None after every model failed, the other returns
\* the response of the last model
C25_Witness ==
    \E h \in Handlers, o \in Handlers :
        /\ th[h].pc = "casc_ret"
        /\ th[h].resp = NoResponse
        /\ Len(th[h].tried) >= NumModels
        /\ th[o].pc = "casc_ret"
        /\ th[o].resp = Response
        /\ th[o].tried[Len(th[o].tried)] = NumModels

\* C26: an ask_deepseek call served from the cache passes no rate limiter
\* and calls no provider: its lookup changes nothing, and its second step
\* adds one to daily_usage["cache_hits"] and leaves the rest of
\* daily_usage, request_times, LAST_REQUEST_TIME, model_usage and the cache
\* as they are.
C26_HitStep ==
    \A h \in Handlers :
        /\ (th[h].pc = "cache_get" /\ th'[h].pc = "hit_count")
              => UNCHANGED <<request_times, LAST_REQUEST_TIME, AI_CACHE, heap,
                             daily_usage, model_usage>>
        /\ (th[h].pc = "hit_count" /\ th'[h] # th[h])
              => /\ UNCHANGED <<request_times, LAST_REQUEST_TIME, AI_CACHE,
                                heap, model_usage>>
                 /\ daily_usage'
                      = [daily_usage EXCEPT !.cache_hits = @ + 1]
                 /\ th'[h].path = "hit"
                 /\ th'[h].nprov = 0

C26_HitTouchesNothing == [][C26_HitStep]_vars

\* a call has been served from the cache and counted as a hit, an earlier
\* call having passed the rate limiter
C26_Witness ==
    \E h \in Handlers :
        /\ th[h].pc = "done"
        /\ th[h].path = "hit"
        /\ daily_usage.cache_hits = 1
        /\ Len(request_times) = 1

\* the place of a step in ask_deepseek
Stage(pc) ==
    IF pc = "cache_get" THEN 1
    ELSE IF pc = "hit_count" THEN 2
    ELSE IF pc = "log_today" THEN 2
    ELSE IF pc = "log_usage" THEN 3
    ELSE IF pc = "wait" THEN 4
    ELSE IF pc = "cascade" THEN 5
    ELSE IF pc = "casc_ret" THEN 6
    ELSE 7

\* C27: on a miss ask_deepseek goes once through log_usage_stats, then once
\* through wait_for_rate_limit, then through the model loop, and stores in
\* the cache after the loop has given a response: the call only moves
\* forward, the request is counted once and before the rate limiter, one
\* timestamp is recorded and before any provider call, and the cache changes
\* only in the step that follows a response.
C27_MissStep ==
    \A h \in Handlers :
        (th[h].fn = "ask" /\ th'[h].fn = "ask" /\ th'[h].pc # th[h].pc)
            => /\ Stage(th'[h].pc) > Stage(th[h].pc)
               /\ th[h].pc = "log_today" => th'[h].pc = "log_usage"
               /\ th[h].pc = "log_usage"
                    => /\ th'[h].pc = "wait"
                       /\ daily_usage'.requests
                            = (IF daily_usage.date = th[h].tday
                               THEN daily_usage.requests ELSE 0) + 1
               /\ th[h].pc = "wait"
                    => /\ th'[h].pc = "cascade"
                       /\ passed' = Append(passed, clock)
                       /\ th[h].tried = <<>>
               /\ th[h].pc = "cascade" => th'[h].pc = "casc_ret"
               /\ th[h].pc # "log_usage"
                    => daily_usage'.requests = daily_usage.requests
               /\ th[h].pc # "wait" => passed' = passed
               /\ th[h].pc # "cascade" => th'[h].tried = <<>>
               /\ AI_CACHE' # AI_CACHE
                    => \/ th[h].pc = "casc_ret" /\ th[h].resp = Response
                       \/ th[h].pc = "cache_get" /\ th'[h].expired

C27_MissOrder == [][C27_MissStep]_vars

\* a call that missed the cache has gone through every step and has
\* returned a live answer that it stored
C27_Witness ==
    \E h \in Handlers :
        /\ th[h].pc = "done"
        /\ th[h].path = "live"
        /\ th[h].nprov >= 1
        /\ daily_usage.requests >= 1
        /\ CacheIndex(AI_CACHE, th[h].key) # 0

\* the messages ask_deepseek has for want of an answer
DegradedTexts ==
    {UnavailableMsg, BusyMsg, LimitMsg, ConnectMsg, Placeholder, EmptyContent}

\* C28: AI_CACHE holds no degraded answer: the content of every entry is a
\* non-empty text of the provider, none of the static messages and not the
\* placeholder for an empty content.
C28_NoDegradedCached ==
    \A i \in 1..Len(AI_CACHE) :
        heap[AI_CACHE[i].obj].base \notin DegradedTexts

\* the shared structures of ai_helper and the lock of each
Structures == {"limiter", "cache", "daily_usage", "model_usage"}

LockOf(x) ==
    IF x = "limiter" THEN "request_lock"
    ELSE IF x = "cache" THEN "cache_lock"
    ELSE IF x = "daily_usage" THEN "usage_lock"
    ELSE "model_lock"

\* the structures the next step of a handler reads or writes
Accesses(t) ==
    IF t.pc \in {"cm_check", "rec_append"} THEN {"limiter"}
    ELSE IF t.pc = "cache_get" THEN {"cache"}
    ELSE IF t.pc = "casc_ret" /\ t.fn = "ask" /\ t.resp = Response
        THEN {"cache"}
    ELSE IF t.pc \in {"hit_count", "log_usage", "switch"}
        THEN {"daily_usage"}
    ELSE IF t.pc \in {"log_ok", "log_fail", "stats"} THEN {"model_usage"}
    ELSE {}

\* the structures a step writes
Written ==
    {x \in Structures :
        \/ x = "limiter"
           /\ <<request_times, LAST_REQUEST_TIME>>'
                # <<request_times, LAST_REQUEST_TIME>>
        \/ x = "cache" /\ AI_CACHE' # AI_CACHE
        \/ x = "daily_usage" /\ daily_usage' # daily_usage
        \/ x = "model_usage" /\ model_usage' # model_usage}

\* a handler is inside a block that works on x
Inside(h, x) == x \in Accesses(th[h]) /\ Ready(h)

C29_Step ==
    /\ \A h \in Handlers :
          th'[h] # th[h] => \A x \in Accesses(th[h]) : LockOf(x) \in held[h]
    /\ \A x \in Written :
          \E h \in Handlers :
              /\ th'[h] # th[h]
              /\ x \in Accesses(th[h])
              /\ LockOf(x) \in held[h]

WantsHeld(h) ==
    /\ held[h] \subseteq HeldAt(th[h])
    /\ \E l \in HeldAt(th[h]) \ held[h] :
          \E o \in Handlers \ {h} : l \in held[o]

C30_Step ==
    \A h \in Handlers :
        (th[h].pc \in {"sleep", "backoff", "attempt"} /\ th'[h] # th[h])
            => held[h] = {}

\* C30: a handler holds one lock at most; the sleep of the poll loop, the
\* sleep of the backoff and the provider call are made with no lock held;
\* a handler that has a lock waits for no other lock, so whoever waits for
\* a lock waits for a handler that can go on and release it.
C30_NoLockWhileWaiting ==
    /\ [](\A h \in Handlers :
            /\ Cardinality(held[h]) <= 1
            /\ held[h] # {} => ~WantsHeld(h)
            /\ WantsHeld(h)
                 => \A o \in Handlers \ {h} :
                        held[o] \cap HeldAt(th[h]) # {}
                            => /\ ~WantsHeld(o)
                               /\ th[o].pc \in {"sleep", "backoff", "attempt"}
                                    => held[o] \ HeldAt(th[o]) # {})
    /\ [][C30_Step]_vars

\* one handler sleeps in the poll loop with no lock while the other, in its
\* provider call with no lock either, has had the rate limiter before it
C30_Witness ==
    \E h, o \in Handlers :
        /\ h # o
        /\ th[h].pc = "sleep"
        /\ th[o].pc = "attempt"
        /\ held[h] = {}
        /\ held[o] = {}
        /\ Len(passed) = 1

\* a sequence of timestamps in the order of time
Ordered(ts) == \A i, j \in 1..Len(ts) : i < j => ts[i] <= ts[j]

C31_Step ==
    /\ LAST_REQUEST_TIME' >= LAST_REQUEST_TIME
    /\ \A h \in Handlers :
          (th[h].pc = "rec_append" /\ th'[h] # th[h])
              => /\ Len(passed') = Len(passed) + 1
                 /\ Len(request_times') = Len(request_times) + 1

\* C31: whatever the interleaving of wait_for_rate_limit calls, each return
\* has appended one timestamp, request_times is in non-decreasing order,
\* and LAST_REQUEST_TIME is the largest timestamp recorded so far and never
\* moves backwards.
C31_TimestampsOrdered ==
    /\ [](/\ Ordered(request_times)
          /\ \A i \in 1..Len(passed) : passed[i] <= LAST_REQUEST_TIME)
    /\ [][C31_Step]_vars

Models == 1..NumModels

AttemptsOf(mu, m) ==
    IF FALLBACK_MODELS[m].name \in DOMAIN mu
    THEN mu[FALLBACK_MODELS[m].name].attempts
    ELSE 0

\* the provider calls on model m that have returned or raised and are not
\* recorded yet
Unrecorded(m) ==
    Cardinality({h \in Handlers :
                    th[h].pc \in {"log_ok", "log_fail"} /\ th[h].mi = m})

\* the provider calls on model m that the step makes
CallsInStep(m) ==
    Cardinality({h \in Handlers :
                    /\ Len(th'[h].tried) = Len(th[h].tried) + 1
                    /\ th'[h].tried[Len(th'[h].tried)] = m})

\* C32 as stated: in every state, attempts of a model is the number of
\* provider calls issued for it since the start of the process (both start
\* at zero, and every step adds the same number to both).
C32_AttemptsAreCalls ==
    [][\A m \in Models :
          AttemptsOf(model_usage', m)
              = AttemptsOf(model_usage, m) + CallsInStep(m)]_vars

C32_Step ==
    \A m \in Models :
        AttemptsOf(model_usage', m) + Unrecorded(m)'
            = AttemptsOf(model_usage, m) + Unrecorded(m) + CallsInStep(m)

\* C32: for every model with an entry, attempts = successes + failures;
\* attempts is the number of provider calls for the model whose outcome has
\* been recorded, that is the calls issued since the start of the process
\* less those that have ended and stand before their log_model_usage; no
\* update of concurrent cascades is lost.
C32_AttemptsRecorded ==
    /\ [](\A n \in DOMAIN model_usage :
            model_usage[n].attempts
                = model_usage[n].successes + model_usage[n].failures)
    /\ [][C32_Step]_vars

\* two cascades have called the primary model at the same time, one call
\* has failed and one has succeeded, and both are recorded
C32_Witness ==
    /\ AttemptsOf(model_usage, 1) = 2
    /\ model_usage[FALLBACK_MODELS[1].name].successes = 1
    /\ model_usage[FALLBACK_MODELS[1].name].failures = 1
    /\ \A h \in Handlers : th[h].cid # 0 /\ th[h].tried # <<>>

\* what is left of the model loop to a handler: the models after its own,
\* then the attempts left on its model, then the steps of the attempt
LoopRank(t) ==
    IF t.pc \in {"attempt", "log_ok", "log_fail", "switch", "backoff"}
    THEN ((NumModels - t.mi) * (MaxRetries + 1) + (t.retries - t.att)) * 4
         + (IF t.pc = "attempt" THEN 3
            ELSE IF t.pc \in {"log_ok", "log_fail"} THEN 2
            ELSE 1)
    ELSE 0

C33_Step ==
    \A h \in Handlers :
        /\ (LoopRank(th[h]) > 0 /\ th'[h] # th[h])
              => LoopRank(th'[h]) < LoopRank(th[h])
        /\ (th[h].resp = Response /\ th'[h].cid = th[h].cid)
              => th'[h].tried = th[h].tried

\* C33: past wait_for_rate_limit, every step of make_ai_request_with_retry
\* brings the model loop nearer to its end whatever the provider answers,
\* a call makes at most len(FALLBACK_MODELS) * max_retries provider calls,
\* and it makes none after one that succeeded.
C33_CascadeBounded ==
    /\ [](\A h \in Handlers :
            /\ Len(th[h].tried) <= NumModels * th[h].retries
            /\ LoopRank(th[h]) >= 0)
    /\ [][C33_Step]_vars

\* a call with the default max_retries = 1 has failed on every model and
\* returns None after len(FALLBACK_MODELS) * 1 provider calls, while a call
\* with max_retries = 2 is at its second attempt on a model
C33_Witness ==
    \E h, o \in Handlers :
        /\ th[h].pc = "casc_ret"
        /\ th[h].fn = "cascade"
        /\ th[h].retries = DefaultMaxRetries
        /\ Len(th[h].tried) = NumModels * DefaultMaxRetries
        /\ th[h].resp = NoResponse
        /\ th[o].retries = 2
        /\ th[o].pc = "attempt"
        /\ th[o].att = 1

C34_Step ==
    /\ UNCHANGED <<request_times, LAST_REQUEST_TIME, passed, AI_CACHE, heap,
                   daily_usage, model_usage>>
    /\ \A h \in Handlers :
          /\ (th[h].pc = "idle" /\ th'[h].fn = "ask")
                => /\ th'[h].pc = "done"
                   /\ th'[h].result = Static(UnavailableMsg)
                   /\ th'[h].ret.base = UnavailableMsg
                   /\ th'[h].nprov = 0
          /\ (th[h].pc = "idle" /\ th'[h].fn = "cascade")
                => /\ th'[h].pc = "casc_ret"
                   /\ th'[h].resp = NoResponse
                   /\ th'[h].tried = <<>>

\* C34: with no client, ask_deepseek returns the 'currently unavailable'
\* message and make_ai_request_with_retry returns None, each in its first
\* step: no wait on the rate limiter, no provider call, and AI_CACHE,
\* request_times, LAST_REQUEST_TIME, daily_usage and model_usage as they
\* were.
C34_UnavailableTouchesNothing ==
    /\ [](\A h \in Handlers : th[h].pc \in {"idle", "done", "casc_ret"})
    /\ [][C34_Step]_vars

\* with no client, one handler has the 'currently unavailable' message
\* from ask_deepseek and the other is back from
\* make_ai_request_with_retry with None
C34_Witness ==
    \E h, o \in Handlers :
        /\ ~AI_AVAILABLE
        /\ th[h].pc = "done"
        /\ th[h].ret.base = UnavailableMsg
        /\ th[o].pc = "casc_ret"
        /\ th[o].resp = NoResponse

\* C35: within one day, whatever calls of ask_deepseek and of
\* extract_job_interest have been made, daily_usage["model_switches"] is at
\* most daily_usage["requests"].
C35_SwitchesWithinRequests ==
    daily_usage.model_switches <= daily_usage.requests

====
